---------------------------- MODULE Spec2Model ----------------------------
(***************************************************************************)
(* Model of data/hwdb/generate_hwdb.py: the converter that scans .hwdb     *)
(* text files and writes the products, models and key_len tables of        *)
(* <output>/hw.db.                                                         *)
(*                                                                         *)
(* A text is a sequence of one-character strings, so that strip(),         *)
(* startswith(), endswith() and split() are computed character by          *)
(* character as Python computes them.  A table is a set of <<key, value>>  *)
(* rows.  `disk' is the committed content of hw.db; products, models and   *)
(* key_len are the tables as the open connection sees them (committed      *)
(* rows plus the rows of the open transaction).                            *)
(***************************************************************************)
EXTENDS Integers, Sequences, FiniteSets, TLC

\* Largest number of input files of a run, and of lines of one file.
MaxFiles == 2
MaxLines == 2

(***************************************************************************)
(* Texts                                                                   *)
(***************************************************************************)
Whitespace == {" ", "\t"}

STAR == <<"*">>
HASH == <<"#">>
ID_ == <<"I", "D", "_">>
FROM_DATABASE == <<"_", "F", "R", "O", "M", "_", "D", "A", "T", "A", "B", "A", "S", "E">>
ID_PRODUCT_FROM_DATABASE == ID_ \o <<"P", "R", "O", "D", "U", "C", "T">> \o FROM_DATABASE
ID_MODEL_FROM_DATABASE == ID_ \o <<"M", "O", "D", "E", "L">> \o FROM_DATABASE
ID_UNKNOWN_FROM_DATABASE == ID_ \o <<"U", "N", "K", "N", "O", "W", "N">> \o FROM_DATABASE

\* str.startswith / str.endswith
StartsWith(s, p) == Len(s) >= Len(p) /\ SubSeq(s, 1, Len(p)) = p
EndsWith(s, p) == Len(s) >= Len(p) /\ SubSeq(s, Len(s) - Len(p) + 1, Len(s)) = p

\* str.strip(): whitespace removed at both ends
RECURSIVE LStrip(_)
LStrip(s) == IF s # <<>> /\ Head(s) \in Whitespace THEN LStrip(Tail(s)) ELSE s
RECURSIVE RStrip(_)
RStrip(s) ==
    IF s # <<>> /\ s[Len(s)] \in Whitespace THEN RStrip(SubSeq(s, 1, Len(s) - 1)) ELSE s
Strip(s) == RStrip(LStrip(s))

Contains(s, c) == \E j \in 1..Len(s) : s[j] = c

\* the text before the first occurrence of c (all of s when c is absent)
RECURSIVE Before(_, _)
Before(s, c) ==
    IF s = <<>> \/ Head(s) = c THEN <<>> ELSE <<Head(s)>> \o Before(Tail(s), c)
\* the text after the first occurrence of c
After(s, c) == SubSeq(s, Len(Before(s, c)) + 2, Len(s))

\* line.split('*')[0]
KeyOf(line) == Before(line, "*")

\* a split that never fails: str.partition, (line, '') when '=' is absent
PartitionEq(line) == <<Before(line, "="), After(line, "=")>>
\* line.split("=", 1): two parts when '=' occurs, else the line alone
SplitEq(line) ==
    IF Contains(line, "=") THEN <<Before(line, "="), After(line, "=")>> ELSE <<line>>

\* the filter of the list comprehension: non-blank and no '#' in column one
Keep(raw) == Strip(raw) # <<>> /\ ~StartsWith(raw, HASH)
\* lines = [line.strip() for line in contents.split("\n") if ...]
Lines(c) ==
    LET kept == SelectSeq(c, Keep) IN [j \in 1..Len(kept) |-> Strip(kept[j])]

(***************************************************************************)
(* Tables and the store                                                    *)
(***************************************************************************)
Keys(table) == {r[1] : r \in table}

\* INSERT OR REPLACE: the row of the same key is replaced
InsertOrReplace(table, k, v) ==
    [ok |-> TRUE, rows |-> {r \in table : r[1] # k} \cup {<<k, v>>}]
\* INSERT INTO a table whose key is the PRIMARY KEY: a second row of the
\* same key raises sqlite3.IntegrityError
Insert(table, k, v) ==
    IF k \in Keys(table) THEN [ok |-> FALSE, rows |-> table]
    ELSE [ok |-> TRUE, rows |-> table \cup {<<k, v>>}]

NoTables == [products |-> {}, models |-> {}, key_len |-> {}]
NoFile == [exists |-> FALSE] @@ NoTables

\* a store opened without removing what is there: the old rows stay
OpenStoreKeep(d) == [d EXCEPT !.exists = TRUE]
\* os.remove of an existing hw.db, sqlite3.connect, three CREATE TABLE
OpenStore(d) == [exists |-> TRUE] @@ NoTables

\* every statement committed as it runs (autocommit)
PersistEach(d, p, m, k) == [exists |-> d.exists, products |-> p, models |-> m, key_len |-> k]
\* what an INSERT leaves in the file before conn.commit(): the rows stay in
\* the open transaction
Persist(d, p, m, k) == d

\* the key is kept from the file before
KeepKey(k) == k
\* key = '' before the lines of each file
ResetKey(k) == <<>>

\* key_len_min = pow(2, 32).  4294967296 is beyond the integers of the model
\* checker, whose largest integer stands for it here: the scan only ever
\* compares it with the length of a key, which is far below both.
KeyLenMinInit == 2147483647
KeyLenMaxInit == 0

(***************************************************************************)
(* Inputs                                                                  *)
(***************************************************************************)
L_ab == <<"a", "b", "*">>
L_abc == <<"a", "b", "c", "*">>
L_ab_sp == <<"a", "b", " ", "*">>
L_a_b == <<"a", "*", "b", "*">>
L_prodP == ID_PRODUCT_FROM_DATABASE \o <<"=", "P">>
L_prodQ == ID_PRODUCT_FROM_DATABASE \o <<"=", " ", "Q">>
L_prodStar == ID_PRODUCT_FROM_DATABASE \o <<"=", "R", "*">>
L_modelM == ID_MODEL_FROM_DATABASE \o <<"=", "M">>
L_modelEq == ID_MODEL_FROM_DATABASE \o <<"=", "M", "=", "N", " ">>
L_unknown == ID_UNKNOWN_FROM_DATABASE \o <<"=", "f", "o", "o">>
L_noEq == ID_PRODUCT_FROM_DATABASE
L_noEqX == <<" ">> \o ID_ \o <<"X">>
L_other == <<"x", "y">>
L_otherEq == <<"x", "=", "y">>
L_blank == <<>>
L_space == <<" ", "\t">>
L_comment == <<"#", "c">>
L_commentStar == <<"#", "c", "*">>
L_wsComment == <<" ", "#", "c">>
L_wsCommentStar == <<" ", "#", "c", "*">>

PoolMain == {L_ab, L_abc, L_prodP, L_modelM, L_noEq}
PoolAttr == {L_ab, L_abc, L_prodP, L_prodStar, L_modelEq, L_comment}
PoolLen == {L_ab, L_ab_sp, L_abc, L_prodP, L_blank}
PoolNoop == {L_ab, L_prodP, L_blank, L_space, L_comment, L_commentStar, L_wsComment, L_wsCommentStar}
PoolMalformed == {L_ab, L_prodP, L_unknown, L_noEq, L_noEqX, L_other}
PoolDup == {L_ab, L_ab_sp, L_prodP, L_prodQ, L_modelM}
PoolKey == {L_ab, L_ab_sp, L_a_b, L_prodP, L_modelM}

\* the contents of one input file, as contents.split("\n")
FileContents(p) == UNION {[1..n -> p] : n \in 0..MaxLines}

\* what the output directory may hold at the start: no hw.db, the hw.db of
\* an earlier run, or a hw.db of another make
StaleRow == <<<<"a", "b">>, <<"O", "l", "d">>>>
OldStores ==
    { NoFile,
      [exists |-> TRUE, products |-> {StaleRow}, models |-> {StaleRow},
       key_len |-> {<<"min", 1>>, <<"max", 9>>}],
      [exists |-> TRUE, products |-> {StaleRow}, models |-> {}, key_len |-> {}] }

(***************************************************************************)
(* The input format as documented: blank lines, '#' comments, key lines    *)
(* '<prefix>*' and attribute lines 'ID_<NAME>=<value>'.                    *)
(***************************************************************************)
IsBlank(raw) == Strip(raw) = <<>>
IsComment(raw) == StartsWith(raw, HASH)
IsAttrLine(l) == StartsWith(l, ID_) /\ Contains(l, "=")
IsKeyLine(l) == ~IsAttrLine(l) /\ EndsWith(l, STAR)
AttrName(l) == Before(l, "=")
AttrValue(l) == Strip(After(l, "="))
\* the trimmed text before the trailing '*' of a key line
Prefix(l) == Strip(SubSeq(l, 1, Len(l) - 1))
NotSkipped(raw) == ~IsBlank(raw) /\ ~IsComment(raw)
\* the lines of a file that are neither blank nor comments, trimmed
Content(c) ==
    LET kept == SelectSeq(c, NotSkipped) IN [j \in 1..Len(kept) |-> Strip(kept[j])]
\* position of the nearest key line before position j, 0 when there is none
NearestKey(ls, j) ==
    LET before == {n \in 1..(j - 1) : IsKeyLine(ls[n])}
    IN IF before = {} THEN 0 ELSE CHOOSE n \in before : \A o \in before : o <= n
AttrAt(ls, name) == {j \in 1..Len(ls) : IsAttrLine(ls[j]) /\ AttrName(ls[j]) = name}
\* the rows the attribute lines `name' of a file call for
Called(c, name) ==
    LET ls == Content(c)
    IN {<<Prefix(ls[NearestKey(ls, j)]), AttrValue(ls[j])>> :
            j \in {n \in AttrAt(ls, name) : NearestKey(ls, n) > 0}}
\* a file of the documented shape: only key and attribute lines besides
\* blanks and comments, every product or model attribute under a key line,
\* and no key with a second product or a second model attribute
Documented(c) ==
    LET ls == Content(c)
        ok(name) ==
            /\ \A j \in AttrAt(ls, name) : NearestKey(ls, j) > 0
            /\ \A j, n \in AttrAt(ls, name) :
                    j # n => Prefix(ls[NearestKey(ls, j)]) # Prefix(ls[NearestKey(ls, n)])
    IN /\ \A j \in 1..Len(ls) : IsAttrLine(ls[j]) \/ IsKeyLine(ls[j])
       /\ ok(ID_PRODUCT_FROM_DATABASE)
       /\ ok(ID_MODEL_FROM_DATABASE)

(***************************************************************************)
(* State                                                                   *)
(***************************************************************************)
VARIABLES
    pc,          \* "start", "files", "scan", "commit", "done", "aborted"
    disk,        \* the committed content of <output>/hw.db
    products,    \* the tables as the connection sees them
    models,
    key_len,
    key_len_min,
    key_len_max,
    fileNo,      \* number of files opened so far
    contents,    \* the raw lines of the current file
    lines,       \* its filtered, stripped lines
    i,           \* position of the scan in lines
    key,         \* the current key
    pool,        \* the raw lines the input files are made of
    old,         \* history: the hw.db found when the run started
    observed,    \* history: the keys assigned by key lines, in all files
    inserted     \* history: the rows this run has inserted

vars == <<pc, disk, products, models, key_len, key_len_min, key_len_max,
          fileNo, contents, lines, i, key, pool, old, observed, inserted>>

InitWith(p, stores) ==
    /\ pc = "start"
    /\ disk \in stores
    /\ products = {}
    /\ models = {}
    /\ key_len = {}
    /\ key_len_min = 0
    /\ key_len_max = 0
    /\ fileNo = 0
    /\ contents = <<>>
    /\ lines = <<>>
    /\ i = 1
    /\ key = <<>>
    /\ pool = p
    /\ old = disk
    /\ observed = {}
    /\ inserted = NoTables

Init == InitWith(PoolMain, OldStores)

\* lines 13-24: the output store is made anew and the bounds initialised
Setup ==
    /\ pc = "start"
    /\ disk' = OpenStore(disk)
    /\ products' = disk'.products
    /\ models' = disk'.models
    /\ key_len' = disk'.key_len
    /\ key_len_min' = KeyLenMinInit
    /\ key_len_max' = KeyLenMaxInit
    /\ pc' = "files"
    /\ UNCHANGED <<fileNo, contents, lines, i, key, pool, old, observed, inserted>>

\* lines 26-33: the next file is read and filtered
ReadFile ==
    /\ pc = "files"
    /\ fileNo < MaxFiles
    /\ \E c \in FileContents(pool) :
        /\ contents' = c
        /\ lines' = Lines(c)
        /\ pc' = IF Lines(c) = <<>> THEN "files" ELSE "scan"
    /\ key' = ResetKey(key)
    /\ i' = 1
    /\ fileNo' = fileNo + 1
    /\ UNCHANGED <<disk, products, models, key_len, key_len_min, key_len_max,
                   pool, old, observed, inserted>>

\* line 27: open() raises, the file cannot be read
OpenFail ==
    /\ pc = "files"
    /\ fileNo < MaxFiles
    /\ pc' = "aborted"
    /\ fileNo' = fileNo + 1
    /\ UNCHANGED <<disk, products, models, key_len, key_len_min, key_len_max,
                   contents, lines, i, key, pool, old, observed, inserted>>

Advance ==
    /\ i' = i + 1
    /\ pc' = IF i = Len(lines) THEN "files" ELSE "scan"

Abort ==
    /\ pc' = "aborted"
    /\ UNCHANGED <<disk, products, models, key_len, key_len_min, key_len_max, i, key,
                   observed, inserted>>

\* lines 34-50: the body of the loop, for the line at position i
ScanLine ==
    /\ pc = "scan"
    /\ LET line == lines[i] IN
        IF EndsWith(line, STAR)
        THEN /\ key' = KeyOf(line)
             /\ key_len_min' = IF Len(key') < key_len_min THEN Len(key') ELSE key_len_min
             /\ key_len_max' = IF Len(key') > key_len_max THEN Len(key') ELSE key_len_max
             /\ observed' = observed \cup {key'}
             /\ Advance
             /\ UNCHANGED <<disk, products, models, key_len, inserted>>
        ELSE IF ~StartsWith(line, ID_)
        THEN /\ Advance
             /\ UNCHANGED <<disk, products, models, key_len, key_len_min, key_len_max,
                            key, observed, inserted>>
        ELSE LET parts == SplitEq(line) IN
            IF Len(parts) # 2
            THEN Abort
            ELSE LET ty == parts[1]
                     value == parts[2]
                     p == IF ty = ID_PRODUCT_FROM_DATABASE
                          THEN Insert(products, Strip(key), Strip(value))
                          ELSE [ok |-> TRUE, rows |-> products]
                     m == IF ty = ID_MODEL_FROM_DATABASE
                          THEN Insert(models, Strip(key), Strip(value))
                          ELSE [ok |-> TRUE, rows |-> models]
                 IN IF ~p.ok \/ ~m.ok
                    THEN Abort
                    ELSE /\ products' = p.rows
                         /\ models' = m.rows
                         /\ disk' = Persist(disk, p.rows, m.rows, key_len)
                         /\ inserted' =
                                [inserted EXCEPT
                                    !.products = @ \cup (p.rows \ products),
                                    !.models = @ \cup (m.rows \ models)]
                         /\ Advance
                         /\ UNCHANGED <<key_len, key_len_min, key_len_max, key, observed>>
    /\ UNCHANGED <<fileNo, contents, lines, pool, old>>

\* lines 26, 52-53: args.files (one or more) is exhausted; the two key_len rows
InsertKeyLen ==
    /\ pc = "files"
    /\ fileNo >= 1
    /\ LET a == Insert(key_len, "min", key_len_min)
           b == Insert(a.rows, "max", key_len_max)
       IN IF ~a.ok \/ ~b.ok
          THEN /\ pc' = "aborted"
               /\ UNCHANGED <<disk, key_len, inserted>>
          ELSE /\ key_len' = b.rows
               /\ disk' = Persist(disk, products, models, b.rows)
               /\ inserted' = [inserted EXCEPT !.key_len = @ \cup (b.rows \ key_len)]
               /\ pc' = "commit"
    /\ UNCHANGED <<products, models, key_len_min, key_len_max, fileNo,
                   contents, lines, i, key, pool, old, observed>>

\* lines 55-56: conn.commit(), conn.close()
Commit ==
    /\ pc = "commit"
    /\ disk' = [exists |-> TRUE, products |-> products, models |-> models,
                key_len |-> key_len]
    /\ pc' = "done"
    /\ UNCHANGED <<products, models, key_len, key_len_min, key_len_max,
                   fileNo, contents, lines, i, key, pool, old, observed, inserted>>

Next == Setup \/ ReadFile \/ OpenFail \/ ScanLine \/ InsertKeyLen \/ Commit

Spec == Init /\ [][Next]_vars

InitAttr == InitWith(PoolAttr, {NoFile})
SpecAttr == InitAttr /\ [][Next]_vars
InitLen == InitWith(PoolLen, {NoFile})
SpecLen == InitLen /\ [][Next]_vars
InitNoop == InitWith(PoolNoop, {NoFile})
SpecNoop == InitNoop /\ [][Next]_vars
InitMalformed == InitWith(PoolMalformed, {NoFile})
SpecMalformed == InitMalformed /\ [][Next]_vars
InitDup == InitWith(PoolDup, {NoFile})
SpecDup == InitDup /\ [][Next]_vars
InitKey == InitWith(PoolKey, {NoFile})
SpecKey == InitKey /\ [][Next]_vars

TypeOK ==
    /\ pc \in {"start", "files", "scan", "commit", "done", "aborted"}
    /\ fileNo \in 0..MaxFiles
    /\ pc = "scan" => i \in 1..Len(lines)

(***************************************************************************)
(* Properties                                                              *)
(***************************************************************************)
Cur == lines[i]
NoRows(d) == d.products = {} /\ d.models = {} /\ d.key_len = {}
\* the value of the key_len row `name' of a store
KeyLenValue(d, name) == CHOOSE v \in {r[2] : r \in {q \in d.key_len : q[1] = name}} : TRUE
\* a line the scan takes as the attribute `name': it reaches the INSERT
IsAttrOf(l, name) ==
    ~EndsWith(l, STAR) /\ StartsWith(l, ID_) /\ Contains(l, "=") /\ Before(l, "=") = name
\* the scan is at an attribute line whose key already has a row in the table
Duplicate(table, name) == pc = "scan" /\ IsAttrOf(Cur, name) /\ Strip(key) \in Keys(table)
Replaced(table, k, v) == {r \in table : r[1] # k} \cup {<<k, v>>}
\* the key that the key lines of the current file before position i give
FileKey ==
    LET ks == {n \in 1..(i - 1) : EndsWith(lines[n], STAR)}
    IN IF ks = {} THEN <<>> ELSE KeyOf(lines[CHOOSE n \in ks : \A o \in ks : o <= n])

\* C1: after a successful run over one file of the documented shape, in
\* which no key has two product or two model attributes, the products table
\* holds exactly the rows (trimmed prefix of the nearest key line before,
\* trimmed value after the first '=') of the ID_PRODUCT_FROM_DATABASE lines,
\* and the models table those of the ID_MODEL_FROM_DATABASE lines, whatever
\* the value, a value ending with '*' included.
AttributeRows ==
    (pc = "done" /\ fileNo = 1 /\ Documented(contents)) =>
        /\ disk.products = Called(contents, ID_PRODUCT_FROM_DATABASE)
        /\ disk.models = Called(contents, ID_MODEL_FROM_DATABASE)

\* C2: after a successful run, the 'min' row of key_len is at most, and the
\* 'max' row at least, the length of every observed key, an observed key
\* being the trimmed key of a key line, as it is used in the tables.
KeyLengthBounds ==
    pc = "done" =>
        \A k \in observed :
            /\ KeyLenValue(disk, "min") <= Len(Strip(k))
            /\ Len(Strip(k)) <= KeyLenValue(disk, "max")

\* C3, as stated: when the key of a key line, which has a row, receives a
\* second attribute line of the same category, the run goes on and the table
\* holds one row for the key, with the value of the later line.
DuplicateOverwrites ==
    [][ /\ (Duplicate(products, ID_PRODUCT_FROM_DATABASE) /\ key # <<>>) =>
            /\ pc' # "aborted"
            /\ products' = Replaced(products, Strip(key), AttrValue(Cur))
        /\ (Duplicate(models, ID_MODEL_FROM_DATABASE) /\ key # <<>>) =>
            /\ pc' # "aborted"
            /\ models' = Replaced(models, Strip(key), AttrValue(Cur)) ]_vars

\* C3, amended: when a key that has a row receives a second attribute line
\* of the same category (same trimmed key, in the same file or another), the
\* INSERT fails on the primary key and the run aborts; nothing is committed,
\* so the store holds no row, neither of the earlier nor of the later line.
DuplicateAborts ==
    [][ (\/ Duplicate(products, ID_PRODUCT_FROM_DATABASE)
         \/ Duplicate(models, ID_MODEL_FROM_DATABASE)) =>
            /\ pc' = "aborted"
            /\ NoRows(disk') ]_vars

\* C3, reached: a run aborted at a product line under a key line whose key
\* has a row of another value.
DuplicateSeen ==
    /\ pc = "aborted"
    /\ key # <<>>
    /\ i \in 1..Len(lines)
    /\ IsAttrOf(lines[i], ID_PRODUCT_FROM_DATABASE)
    /\ \E r \in products : r[1] = Strip(key) /\ r[2] # AttrValue(lines[i])
    /\ NoRows(disk)

\* C4: a successful run ends with a store that holds exactly the rows this
\* run inserted, whatever hw.db the output directory held before: the keys
\* of its rows are trimmed keys of this run's key lines (or the initial
\* key), and key_len holds this run's bounds.
FreshStore ==
    pc = "done" =>
        /\ disk.exists
        /\ disk.products = inserted.products
        /\ disk.models = inserted.models
        /\ disk.key_len = inserted.key_len
        /\ Keys(disk.products) \cup Keys(disk.models) \subseteq
               {Strip(k) : k \in observed \cup {<<>>}}
        /\ disk.key_len = {<<"min", key_len_min>>, <<"max", key_len_max>>}

\* C4, reached: a successful run over a directory that held a hw.db with a
\* row of key "ab", ending with a row of key "ab" of this run and without
\* the old one.
FreshStoreSeen ==
    /\ pc = "done"
    /\ old.exists
    /\ StaleRow \in old.products
    /\ StaleRow \notin disk.products
    /\ \E r \in disk.products : r[1] = StaleRow[1]

\* C5: a blank line or a '#' comment line that the scan comes to, also one
\* that is preceded by whitespace or ends with '*', leaves the current key,
\* both bounds and the three tables as they are.
SkippedLinesNoOp ==
    [][ (pc = "scan" /\ (Cur = <<>> \/ StartsWith(Cur, HASH))) =>
            UNCHANGED <<key, key_len_min, key_len_max, products, models, key_len>> ]_vars

\* C6: a product or model attribute line with no key line before it in its
\* file aborts the run, and no row is written for it.
AttributeBeforeKeyAborts ==
    [][ ( /\ pc = "scan"
          /\ IsAttrOf(Cur, ID_PRODUCT_FROM_DATABASE) \/ IsAttrOf(Cur, ID_MODEL_FROM_DATABASE)
          /\ \A n \in 1..(i - 1) : ~EndsWith(lines[n], STAR) ) =>
            /\ pc' = "aborted"
            /\ products' = products
            /\ models' = models ]_vars

\* C7: of the lines that do not end with '*': one that starts with 'ID_' and
\* has no '=' aborts the run, whatever its name; one that has no '=' and
\* does not start with 'ID_' is ignored; one that starts with 'ID_', has an
\* '=' and a name other than the product and the model attribute adds no
\* row and leaves key and bounds as they are.
MalformedLines ==
    [][ (pc = "scan" /\ ~EndsWith(Cur, STAR)) =>
            /\ (StartsWith(Cur, ID_) /\ ~Contains(Cur, "=")) => pc' = "aborted"
            /\ (~StartsWith(Cur, ID_) /\ ~Contains(Cur, "=")) =>
                /\ pc' # "aborted"
                /\ UNCHANGED <<key, key_len_min, key_len_max, products, models,
                               key_len, disk>>
            /\ ( /\ StartsWith(Cur, ID_)
                 /\ Contains(Cur, "=")
                 /\ AttrName(Cur) \notin {ID_PRODUCT_FROM_DATABASE, ID_MODEL_FROM_DATABASE} ) =>
                /\ pc' # "aborted"
                /\ UNCHANGED <<key, key_len_min, key_len_max, products, models,
                               key_len, disk>> ]_vars

\* C7, reached: a run aborted under a key at a line that starts with 'ID_',
\* does not end with '*' and has no '='.
MalformedSeen ==
    /\ pc = "aborted"
    /\ i \in 1..Len(lines)
    /\ StartsWith(lines[i], ID_)
    /\ ~EndsWith(lines[i], STAR)
    /\ ~Contains(lines[i], "=")
    /\ key # <<>>

\* C8: a line that ends with '*' makes the current key the trimmed text
\* before its trailing '*', inner '*' included, and inserts no row; the
\* lines that follow until the next such line keep that key.
KeyLineSetsKey ==
    [][ pc = "scan" =>
            /\ EndsWith(Cur, STAR) =>
                /\ Strip(key') = Prefix(Cur)
                /\ UNCHANGED <<products, models, key_len>>
            /\ (~EndsWith(Cur, STAR) /\ pc' # "aborted") => key' = key ]_vars

\* C9: reading a file makes the current key empty, so every row is inserted
\* under the key of a key line of the file of its attribute line (or the
\* empty key); the bounds are kept from file to file: min never grows, max
\* never shrinks, and at the end they span the length of the key that each
\* key line of each file assigned (the text before its first '*').
KeyPerFileBoundsPerRun ==
    [][ /\ (pc = "files" /\ fileNo' = fileNo + 1 /\ pc' # "aborted") => key' = <<>>
        /\ pc = "scan" =>
            \A r \in (products' \cup models') \ (products \cup models) : r[1] = Strip(FileKey)
        /\ pc # "start" => (key_len_min' <= key_len_min /\ key_len_max' >= key_len_max)
        /\ pc' = "done" =>
            \A k \in observed' :
                /\ KeyLenValue(disk', "min") <= Len(k)
                /\ Len(k) <= KeyLenValue(disk', "max") ]_vars

\* C9, reached: in the second file, whose first line is a product line, the
\* row is under the empty key although an earlier file had a key line, whose
\* length the bounds still hold.
SecondFileSeen ==
    /\ pc \in {"scan", "files"}
    /\ fileNo = 2
    /\ i = 2
    /\ IsAttrOf(lines[1], ID_PRODUCT_FROM_DATABASE)
    /\ <<<<>>, AttrValue(lines[1])>> \in products
    /\ observed # {}
    /\ key_len_max > 0
    /\ key_len_min <= key_len_max

\* C10: the store holds no row from the removal of the old hw.db until the
\* commit, in an aborted run too; and it is committed only when every file
\* is scanned to its end and both key_len rows are inserted.
CommitOnlyAtEnd ==
    /\ pc \notin {"start", "done"} => NoRows(disk)
    /\ pc = "done" =>
        /\ fileNo >= 1
        /\ i = Len(lines) + 1
        /\ disk.key_len = {<<"min", key_len_min>>, <<"max", key_len_max>>}
        /\ disk.key_len = key_len

\* C10, reached: an aborted run that had inserted rows, over a directory
\* that held a hw.db with rows: the store holds none.
AbortedSeen ==
    /\ pc = "aborted"
    /\ old.products # {}
    /\ products # {}
    /\ NoRows(disk)

=============================================================================
